---- MODULE Spec2Model ----
(***************************************************************************)
(* Model of carnaval/nbt/NBT_Core.py: the doubly-linked list (class        *)
(* dLinkedList and its inner class Node) and the table of error codes of   *)
(* class NBTerror.                                                         *)
(*                                                                         *)
(* Nodes are the objects 1..NumNodes; None is Python's None.  Every node   *)
(* has been constructed by Node(Data), so it starts with Next = Prev =     *)
(* None.  One list object exists; head and tail are its attributes Head    *)
(* and Tail (Sequences already defines operators of those names).          *)
(***************************************************************************)
EXTENDS Integers, Sequences, FiniteSets, TLC

NumNodes == 3

\* A behaviour of Spec is followed up to and including its MaxMisuse-th call
\* that breaks a documented precondition.
MaxMisuse == 1

None == 0

Nodes == 1..NumNodes

VARIABLES head, tail, Next, Prev, Data, members, last, pre, misuse, gen, err

vars == <<head, tail, Next, Prev, Data, members, last, pre, misuse, gen, err>>

\* The list object together with the link fields of the nodes.
Lst == [Head |-> head, Tail |-> tail, Next |-> Next, Prev |-> Prev]

(***************************************************************************)
(* class NBTerror: the table of error codes.  errStr and errRange are      *)
(* inherited from common.ErrorCodeExceptions.CodedError, whose code is not *)
(* part of src/; they are modelled from the specification's describe(code) *)
(* and range().                                                            *)
(***************************************************************************)
\* How far below and above the registered codes the looked-up codes go.
CodeMargin == 50

\* NBTerror.error_dict without its entry for 1003.
error_dict_Gap ==
  (1000 :> "Warning") @@
  (1001 :> "NBT Syntax Error") @@
  (1002 :> "NBT Semantic Error") @@
  (1004 :> "No Label String Pointer") @@
  (1005 :> "Malformed Message")

\* NBTerror.error_dict, lines 146-153.
error_dict ==
  (1000 :> "Warning") @@
  (1001 :> "NBT Syntax Error") @@
  (1002 :> "NBT Semantic Error") @@
  (1003 :> "Label String Pointer") @@
  (1004 :> "No Label String Pointer") @@
  (1005 :> "Malformed Message")

\* NBTerror.errStr( code ): the label of a registered code; any other code,
\* None included, is an undefined error code.
errStr(code) ==
  IF code \in DOMAIN error_dict
  THEN [raised |-> "none", value |-> error_dict[code]]
  ELSE [raised |-> "ValueError", value |-> None]

\* NBTerror.errRange(): the least and the greatest registered code.
errRange ==
  LET codes == DOMAIN error_dict IN
  <<CHOOSE a \in codes : \A c \in codes : a <= c,
    CHOOSE b \in codes : \A c \in codes : c <= b>>

\* The codes that are looked up: None and the codes around the table.
Codes == {None} \cup ((1000 - CodeMargin)..(1005 + CodeMargin))

\* The last lookup in the table and its result.
NoLookup == [op |-> "none", code |-> None, raised |-> "none", value |-> None]

\* Result of an iteration that has not been made.
NoRun == <<"no run">>

\* The generator object made by the last call of lst.elements(): where its
\* body stands ("none": no generator yet, "created": body not started,
\* "yield": suspended at line 262, "done": body left), its local variable n,
\* the payloads it has yielded, whether the list has been left alone since it
\* was made, whether it yielded a node that was outside the list, and what
\* the generator before it yielded if that one ran to its end on an untouched
\* list.
NoGen == [pc |-> "none", n |-> None, out |-> <<>>, clean |-> FALSE,
          stale |-> FALSE, before |-> NoRun]

\* A generator stops being resumed after this many yields.
MaxYield == NumNodes + 2

\* The generator after an insert or remove has assigned to the list: an
\* exhausted generator is dropped, another one is no longer clean.
Touched(g) == IF g.pc = "done" THEN NoGen ELSE [g EXCEPT !.clean = FALSE]

\* The last call: its arguments, whether it kept the documented preconditions,
\* the exception it raised, whether it removed the node that the call before
\* it inserted, and whether it removed the node that the call before it had
\* validly removed.
NoCall == [op |-> "new", node |-> None, after |-> None, valid |-> TRUE,
           raised |-> "none", undoes |-> FALSE, repeats |-> FALSE]

\* insert without line 237: the old successor's Prev is not repointed.
InsertOp_NoBackLink(L, newNode, after) ==
  LET s1 == IF after # None
            THEN LET a == [L EXCEPT !.Next[newNode] = L.Next[after]]
                 IN  [a EXCEPT !.Next[after] = newNode]
            ELSE LET a == [L EXCEPT !.Next[newNode] = L.Head]
                 IN  [a EXCEPT !.Head = newNode]
      s2 == [s1 EXCEPT !.Prev[newNode] = after]
  IN  IF s2.Next[newNode] # None
      THEN s2
      ELSE [s2 EXCEPT !.Tail = newNode]

\* insert without line 239: Tail is never set.
InsertOp_NoTail(L, newNode, after) ==
  LET s1 == IF after # None
            THEN LET a == [L EXCEPT !.Next[newNode] = L.Next[after]]
                 IN  [a EXCEPT !.Next[after] = newNode]
            ELSE LET a == [L EXCEPT !.Next[newNode] = L.Head]
                 IN  [a EXCEPT !.Head = newNode]
      s2 == [s1 EXCEPT !.Prev[newNode] = after]
  IN  IF s2.Next[newNode] # None
      THEN [s2 EXCEPT !.Prev[s2.Next[newNode]] = newNode]
      ELSE s2

\* insert that refuses an `after` whose links show it is outside the list
\* (the guard a hardened insert would have).
InsertOp_Guarded(L, newNode, after) ==
  IF after # None /\ after # L.Head /\ L.Prev[after] = None THEN L
  ELSE
  LET s1 == IF after # None
            THEN LET a == [L EXCEPT !.Next[newNode] = L.Next[after]]
                 IN  [a EXCEPT !.Next[after] = newNode]
            ELSE LET a == [L EXCEPT !.Next[newNode] = L.Head]
                 IN  [a EXCEPT !.Head = newNode]
      s2 == [s1 EXCEPT !.Prev[newNode] = after]
  IN  IF s2.Next[newNode] # None
      THEN [s2 EXCEPT !.Prev[s2.Next[newNode]] = newNode]
      ELSE [s2 EXCEPT !.Tail = newNode]

\* insert whose line 237 repoints the Prev of the list's Head instead of the
\* Prev of newNode's successor.
InsertOp_HeadBackLink(L, newNode, after) ==
  LET s1 == IF after # None
            THEN LET a == [L EXCEPT !.Next[newNode] = L.Next[after]]
                 IN  [a EXCEPT !.Next[after] = newNode]
            ELSE LET a == [L EXCEPT !.Next[newNode] = L.Head]
                 IN  [a EXCEPT !.Head = newNode]
      s2 == [s1 EXCEPT !.Prev[newNode] = after]
  IN  IF s2.Next[newNode] # None
      THEN [s2 EXCEPT !.Prev[s2.Head] = newNode]
      ELSE [s2 EXCEPT !.Tail = newNode]

\* insert that sets newNode.Prev (line 235) only when after is given, relying
\* on a new node's Prev being None.
InsertOp_KeepPrev(L, newNode, after) ==
  LET s1 == IF after # None
            THEN LET a == [L EXCEPT !.Next[newNode] = L.Next[after]]
                 IN  [a EXCEPT !.Next[after] = newNode]
            ELSE LET a == [L EXCEPT !.Next[newNode] = L.Head]
                 IN  [a EXCEPT !.Head = newNode]
      s2 == IF after # None THEN [s1 EXCEPT !.Prev[newNode] = after] ELSE s1
  IN  IF s2.Next[newNode] # None
      THEN [s2 EXCEPT !.Prev[s2.Next[newNode]] = newNode]
      ELSE [s2 EXCEPT !.Tail = newNode]

\* insert that returns at once when newNode already is the Head.
InsertOp_SkipHead(L, newNode, after) ==
  IF newNode = L.Head THEN L
  ELSE
  LET s1 == IF after # None
            THEN LET a == [L EXCEPT !.Next[newNode] = L.Next[after]]
                 IN  [a EXCEPT !.Next[after] = newNode]
            ELSE LET a == [L EXCEPT !.Next[newNode] = L.Head]
                 IN  [a EXCEPT !.Head = newNode]
      s2 == [s1 EXCEPT !.Prev[newNode] = after]
  IN  IF s2.Next[newNode] # None
      THEN [s2 EXCEPT !.Prev[s2.Next[newNode]] = newNode]
      ELSE [s2 EXCEPT !.Tail = newNode]

\* dLinkedList.insert, lines 229-239, statement by statement.
InsertOp(L, newNode, after) ==
  LET s1 == IF after # None
            THEN LET a == [L EXCEPT !.Next[newNode] = L.Next[after]]
                 IN  [a EXCEPT !.Next[after] = newNode]
            ELSE LET a == [L EXCEPT !.Next[newNode] = L.Head]
                 IN  [a EXCEPT !.Head = newNode]
      s2 == [s1 EXCEPT !.Prev[newNode] = after]
  IN  IF s2.Next[newNode] # None
      THEN [s2 EXCEPT !.Prev[s2.Next[newNode]] = newNode]
      ELSE [s2 EXCEPT !.Tail = newNode]

\* remove without line 253: Tail is never updated.
RemoveOp_NoTail(L, oldNode) ==
  LET s1 == IF L.Prev[oldNode] = None
            THEN [L EXCEPT !.Head = L.Next[oldNode]]
            ELSE [L EXCEPT !.Next[L.Prev[oldNode]] = L.Next[oldNode]]
  IN  IF s1.Next[oldNode] = None
      THEN s1
      ELSE [s1 EXCEPT !.Prev[s1.Next[oldNode]] = s1.Prev[oldNode]]

\* remove without line 248: Head is never updated.
RemoveOp_NoHead(L, oldNode) ==
  LET s1 == IF L.Prev[oldNode] = None
            THEN L
            ELSE [L EXCEPT !.Next[L.Prev[oldNode]] = L.Next[oldNode]]
  IN  IF s1.Next[oldNode] = None
      THEN [s1 EXCEPT !.Tail = s1.Prev[oldNode]]
      ELSE [s1 EXCEPT !.Prev[s1.Next[oldNode]] = s1.Prev[oldNode]]

\* remove that also clears the removed node's own links.
RemoveOp_Clear(L, oldNode) ==
  LET s1 == IF L.Prev[oldNode] = None
            THEN [L EXCEPT !.Head = L.Next[oldNode]]
            ELSE [L EXCEPT !.Next[L.Prev[oldNode]] = L.Next[oldNode]]
      s2 == IF s1.Next[oldNode] = None
            THEN [s1 EXCEPT !.Tail = s1.Prev[oldNode]]
            ELSE [s1 EXCEPT !.Prev[s1.Next[oldNode]] = s1.Prev[oldNode]]
  IN  [s2 EXCEPT !.Next[oldNode] = None, !.Prev[oldNode] = None]

\* remove whose second test is taken on the predecessor's side: the
\* successor's Prev is repointed only when oldNode has a predecessor.
RemoveOp_WrongTest(L, oldNode) ==
  LET s1 == IF L.Prev[oldNode] = None
            THEN [L EXCEPT !.Head = L.Next[oldNode]]
            ELSE [L EXCEPT !.Next[L.Prev[oldNode]] = L.Next[oldNode]]
  IN  IF s1.Next[oldNode] = None
      THEN [s1 EXCEPT !.Tail = s1.Prev[oldNode]]
      ELSE IF s1.Prev[oldNode] = None THEN s1
      ELSE [s1 EXCEPT !.Prev[s1.Next[oldNode]] = s1.Prev[oldNode]]

\* remove that refuses a node whose links show it is outside the list (the
\* guard a hardened remove would have).
RemoveOp_Guarded(L, oldNode) ==
  IF oldNode # L.Head /\ L.Prev[oldNode] = None THEN L
  ELSE
  LET s1 == IF L.Prev[oldNode] = None
            THEN [L EXCEPT !.Head = L.Next[oldNode]]
            ELSE [L EXCEPT !.Next[L.Prev[oldNode]] = L.Next[oldNode]]
  IN  IF s1.Next[oldNode] = None
      THEN [s1 EXCEPT !.Tail = s1.Prev[oldNode]]
      ELSE [s1 EXCEPT !.Prev[s1.Next[oldNode]] = s1.Prev[oldNode]]

\* dLinkedList.remove, lines 247-255, statement by statement.
RemoveOp(L, oldNode) ==
  LET s1 == IF L.Prev[oldNode] = None
            THEN [L EXCEPT !.Head = L.Next[oldNode]]
            ELSE [L EXCEPT !.Next[L.Prev[oldNode]] = L.Next[oldNode]]
  IN  IF s1.Next[oldNode] = None
      THEN [s1 EXCEPT !.Tail = s1.Prev[oldNode]]
      ELSE [s1 EXCEPT !.Prev[s1.Next[oldNode]] = s1.Prev[oldNode]]

\* The nodes visited by following Next from n, at most fuel of them.
RECURSIVE Walk(_, _, _)
Walk(L, n, fuel) ==
  IF n = None \/ fuel = 0 THEN <<>>
  ELSE <<n>> \o Walk(L, L.Next[n], fuel - 1)

\* The nodes visited by following Prev from n, at most fuel of them.
RECURSIVE WalkBack(_, _, _)
WalkBack(L, n, fuel) ==
  IF n = None \/ fuel = 0 THEN <<>>
  ELSE <<n>> \o WalkBack(L, L.Prev[n], fuel - 1)

\* The nodes elements() visits, in order (cut off after NumNodes + 1 nodes:
\* a longer walk has met some node twice and never ends).
Chain(L) == Walk(L, L.Head, NumNodes + 1)

BackChain(L) == WalkBack(L, L.Tail, NumNodes + 1)

\* The payloads elements() yields on the list L.
elements(L) == [i \in 1..Len(Chain(L)) |-> Data[Chain(L)[i]]]

Init ==
  /\ head = None
  /\ tail = None
  /\ Next = [n \in Nodes |-> None]
  /\ Prev = [n \in Nodes |-> None]
  /\ Data = [n \in Nodes |-> <<"node0", n>>]
  /\ members = {}
  /\ last = NoCall
  /\ pre = Lst
  /\ misuse = 0
  /\ gen = NoGen
  /\ err = NoLookup

\* A call the documentation allows: newNode is a node outside the list and
\* after is None or a node of the list.
ValidInsert(newNode, after) ==
  /\ newNode \in Nodes \ members
  /\ after \in members \cup {None}

ValidRemove(oldNode) == oldNode \in members

\* lst.insert( newNode, after )
Insert(newNode, after) ==
  IF newNode = None
  THEN \* newNode.Next = ... raises AttributeError before anything is assigned
       /\ last' = [op |-> "insert", node |-> newNode, after |-> after,
                   valid |-> FALSE, raised |-> "AttributeError", undoes |-> FALSE,
                   repeats |-> FALSE]
       /\ misuse' = misuse + 1
       /\ pre' = Lst
       /\ UNCHANGED <<head, tail, Next, Prev, Data, members, gen, err>>
  ELSE LET r == InsertOp(Lst, newNode, after) IN
       /\ head' = r.Head
       /\ tail' = r.Tail
       /\ Next' = r.Next
       /\ Prev' = r.Prev
       /\ members' = members \cup {newNode}
       /\ last' = [op |-> "insert", node |-> newNode, after |-> after,
                   valid |-> ValidInsert(newNode, after), raised |-> "none",
                   undoes |-> FALSE, repeats |-> FALSE]
       /\ pre' = Lst
       /\ misuse' = IF ValidInsert(newNode, after) THEN misuse ELSE misuse + 1
       /\ gen' = Touched(gen)
       /\ UNCHANGED <<Data, err>>

\* lst.remove( oldNode )
Remove(oldNode) ==
  IF oldNode = None
  THEN \* oldNode.Prev raises AttributeError before anything is assigned
       /\ last' = [op |-> "remove", node |-> oldNode, after |-> None,
                   valid |-> FALSE, raised |-> "AttributeError", undoes |-> FALSE,
                   repeats |-> FALSE]
       /\ misuse' = misuse + 1
       /\ pre' = Lst
       /\ UNCHANGED <<head, tail, Next, Prev, Data, members, gen, err>>
  ELSE LET r == RemoveOp(Lst, oldNode) IN
       /\ head' = r.Head
       /\ tail' = r.Tail
       /\ Next' = r.Next
       /\ Prev' = r.Prev
       /\ members' = members \ {oldNode}
       /\ last' = [op |-> "remove", node |-> oldNode, after |-> None,
                   valid |-> ValidRemove(oldNode), raised |-> "none",
                   undoes |-> (last.op = "insert" /\ last.node = oldNode),
                   repeats |-> (last.op = "remove" /\ last.node = oldNode
                                  /\ last.valid)]
       /\ misuse' = IF ValidRemove(oldNode) THEN misuse ELSE misuse + 1
       /\ pre' = Lst
       /\ gen' = Touched(gen)
       /\ UNCHANGED <<Data, err>>

InsertCall == \E newNode \in Nodes \cup {None}, after \in Nodes \cup {None} :
                 /\ misuse < MaxMisuse
                 /\ Insert(newNode, after)

RemoveCall == \E oldNode \in Nodes \cup {None} :
                 /\ misuse < MaxMisuse
                 /\ Remove(oldNode)

InsertValid == \E newNode \in Nodes, after \in Nodes \cup {None} :
                  ValidInsert(newNode, after) /\ Insert(newNode, after)

RemoveValid == \E oldNode \in Nodes : ValidRemove(oldNode) /\ Remove(oldNode)

\* Any calls at all, misuse included.
NextAny == InsertCall \/ RemoveCall

Spec == Init /\ [][NextAny]_vars

\* Only the calls the documentation allows.
NextValid == InsertValid \/ RemoveValid

SpecValid == Init /\ [][NextValid]_vars

\* g = lst.elements(): a new generator; nothing of the body runs yet.
ElementsCall ==
  /\ gen.pc \in {"none", "done"}
  /\ gen' = [pc |-> "created", n |-> None, out |-> <<>>, clean |-> TRUE,
             stale |-> FALSE,
             before |-> IF gen.pc = "done" /\ gen.clean THEN gen.out ELSE NoRun]
  /\ last' = [NoCall EXCEPT !.op = "elements"]
  /\ pre' = Lst
  /\ UNCHANGED <<head, tail, Next, Prev, Data, members, misuse, err>>

\* The generator body with the loop test taken on n.Next: it leaves before
\* yielding the last node.
GenBody_SkipTail(g, L) ==
  LET n == IF g.pc = "created" THEN L.Head ELSE L.Next[g.n] IN
  IF n # None /\ L.Next[n] # None
  THEN [g EXCEPT !.pc = "yield", !.n = n, !.out = Append(g.out, Data[n]),
                 !.stale = g.stale \/ n \notin members]
  ELSE [g EXCEPT !.pc = "done", !.n = None]

\* The generator body with line 263 outside the loop: n is never advanced.
GenBody_NoAdvance(g, L) ==
  LET n == IF g.pc = "created" THEN L.Head ELSE g.n IN
  IF n # None
  THEN [g EXCEPT !.pc = "yield", !.n = n, !.out = Append(g.out, Data[n]),
                 !.stale = g.stale \/ n \notin members]
  ELSE [g EXCEPT !.pc = "done", !.n = None]

\* The generator body from where it stands to its next yield or its end.
GenBody(g, L) ==
  LET n == IF g.pc = "created" THEN L.Head ELSE L.Next[g.n] IN
  IF n # None
  THEN [g EXCEPT !.pc = "yield", !.n = n, !.out = Append(g.out, Data[n]),
                 !.stale = g.stale \/ n \notin members]
  ELSE [g EXCEPT !.pc = "done", !.n = None]

\* next( g )
GenNext ==
  /\ gen.pc \in {"created", "yield"}
  /\ Len(gen.out) < MaxYield
  /\ gen' = GenBody(gen, Lst)
  /\ UNCHANGED <<head, tail, Next, Prev, Data, members, last, pre, misuse, err>>

\* No generator is suspended.
NotIterating == gen.pc \in {"none", "done"}

IdleInsert == NotIterating /\ InsertValid

IdleRemove == NotIterating /\ RemoveValid

\* Valid calls and iterations; the list is left alone while a generator is
\* suspended.
NextIter == IdleInsert \/ IdleRemove \/ ElementsCall \/ GenNext

SpecIter == Init /\ [][NextIter]_vars

\* Valid calls and iterations; while a generator is suspended only remove is
\* called.
NextIterRemove == IdleInsert \/ RemoveValid \/ ElementsCall \/ GenNext

SpecIterRemove == Init /\ [][NextIterRemove]_vars

\* The caller of a generator goes on resuming it.
FairSpecIterRemove == SpecIterRemove /\ WF_vars(GenNext)

\* lst.insert( newNode, after ) with newNode already in the list.
InsertMember == \E newNode \in members, after \in members \cup {None} :
                   /\ NotIterating
                   /\ misuse < MaxMisuse
                   /\ Insert(newNode, after)

GuardedInsert == misuse < MaxMisuse /\ IdleInsert

GuardedRemove == misuse < MaxMisuse /\ IdleRemove

\* Valid calls, inserts of nodes that are already members, and iterations.
NextReinsert == GuardedInsert \/ GuardedRemove \/ InsertMember \/ ElementsCall \/ GenNext

SpecReinsert == Init /\ [][NextReinsert]_vars

\* NBTerror.errStr( code )
ErrStrCall ==
  \E code \in Codes :
     /\ err' = [op |-> "errStr", code |-> code,
                raised |-> errStr(code).raised, value |-> errStr(code).value]
     /\ UNCHANGED <<head, tail, Next, Prev, Data, members, last, pre, misuse, gen>>

\* NBTerror.errRange()
ErrRangeCall ==
  /\ err' = [op |-> "errRange", code |-> None, raised |-> "none", value |-> errRange]
  /\ UNCHANGED <<head, tail, Next, Prev, Data, members, last, pre, misuse, gen>>

NextErr == ErrStrCall \/ ErrRangeCall

\* Lookups in the table of error codes.
SpecErr == Init /\ [][NextErr]_vars

(***************************************************************************)
(* Sequence helpers used to state the properties.                          *)
(***************************************************************************)
Reverse(s) == [i \in 1..Len(s) |-> s[Len(s) + 1 - i]]

\* The position of x in the sequence s (x occurs in s).
Pos(s, x) == CHOOSE i \in 1..Len(s) : s[i] = x

\* s without its i-th element.
SeqDelete(s, i) == [j \in 1..(Len(s) - 1) |-> IF j < i THEN s[j] ELSE s[j + 1]]

\* s with x placed directly after its i-th element.
SeqInsertAfter(s, i, x) ==
  [j \in 1..(Len(s) + 1) |-> IF j <= i THEN s[j] ELSE IF j = i + 1 THEN x ELSE s[j - 1]]

Range(s) == {s[i] : i \in 1..Len(s)}

\* The payloads of a sequence of nodes.
PayloadsOf(c) == [i \in 1..Len(c) |-> Data[c[i]]]

(***************************************************************************)
(* C1 - head/tail invariant.  After any sequence of valid insert and       *)
(* remove calls: Head is None iff Tail is None iff the list has no         *)
(* members, and on a non-empty list Head.Prev and Tail.Next are None.      *)
(***************************************************************************)
C1_HeadTailInvariant ==
  /\ (head = None) <=> (tail = None)
  /\ (head = None) <=> (members = {})
  /\ head # None => Prev[head] = None
  /\ tail # None => Next[tail] = None

\* A non-empty list right after a remove.
C1_Witness == last.op = "remove" /\ members # {} /\ head # None /\ tail # None

(***************************************************************************)
(* C2 - the chain is consistent in both directions.  For members A and B,  *)
(* A.Next is B iff B.Prev is A; following Next from Head visits every      *)
(* member exactly once and ends at Tail; following Prev from Tail visits    *)
(* the same nodes in the reverse of the order elements() yields.           *)
(***************************************************************************)
C2_LinkageInvariant ==
  LET c == Chain(Lst) IN
  /\ \A A \in members, B \in members : (Next[A] = B) <=> (Prev[B] = A)
  /\ Range(c) = members
  /\ Len(c) = Cardinality(members)
  /\ c # <<>> => c[Len(c)] = tail
  /\ BackChain(Lst) = Reverse(c)
  /\ PayloadsOf(BackChain(Lst)) = Reverse(elements(Lst))

\* A list of at least two nodes, built by a splice and reached after a remove
\* has happened as well (a node outside the list has a stale link).
C2_Witness ==
  /\ Len(Chain(Lst)) >= 2
  /\ last.op = "insert" /\ last.after # None
  /\ \E n \in Nodes \ members : Next[n] # None \/ Prev[n] # None

(***************************************************************************)
(* C3 - remove(oldNode) of a member detaches exactly that node: elements() *)
(* afterwards yields the previous sequence without oldNode's payload, the  *)
(* others in their previous order; Head becomes oldNode's old successor    *)
(* when oldNode was the head, Tail its old predecessor when it was the     *)
(* tail.                                                                   *)
(***************************************************************************)
C3_RemoveDetaches ==
  [][ (last'.op = "remove" /\ last'.valid) =>
        LET oldNode == last'.node
            c == Chain(Lst)
            i == Pos(c, oldNode)
        IN  /\ Chain(Lst)' = SeqDelete(c, i)
            /\ elements(Lst)' = SeqDelete(elements(Lst), i)
            /\ members' = members \ {oldNode}
            /\ head = oldNode => head' = Next[oldNode]
            /\ head # oldNode => head' = head
            /\ tail = oldNode => tail' = Prev[oldNode]
            /\ tail # oldNode => tail' = tail ]_vars

\* A node was removed from the middle: two nodes are left and the removed node
\* still names both of its former neighbours.
C3_Witness ==
  /\ last.op = "remove" /\ last.valid
  /\ Len(Chain(Lst)) = 2
  /\ Prev[last.node] = head /\ Next[last.node] = tail

(***************************************************************************)
(* C4 - insert(newNode) with after absent makes newNode the new head:      *)
(* Head is newNode, newNode.Prev is None, newNode.Next is the old head, on *)
(* an empty list Tail is newNode too; elements() yields newNode's payload  *)
(* followed by the previous sequence, so that successive head-inserts into *)
(* an empty list are yielded in reverse insertion order.                   *)
(***************************************************************************)
\* The list made by inserting the nodes of order, one after the other, at the
\* head of the list L.
RECURSIVE HeadInserts(_, _)
HeadInserts(L, order) ==
  IF order = <<>> THEN L
  ELSE HeadInserts(InsertOp(L, order[1], None), SubSeq(order, 2, Len(order)))

\* The sequences of distinct nodes.
Orders == {o \in UNION {[1..k -> Nodes] : k \in 0..NumNodes} :
             \A i \in 1..Len(o), j \in 1..Len(o) : i # j => o[i] # o[j]}

C4_HeadInsert ==
  [][ (last'.op = "insert" /\ last'.valid /\ last'.after = None) =>
        LET newNode == last'.node IN
        /\ head' = newNode
        /\ Prev'[newNode] = None
        /\ Next'[newNode] = head
        /\ head = None => tail' = newNode
        /\ head # None => tail' = tail
        /\ Chain(Lst)' = <<newNode>> \o Chain(Lst)
        /\ elements(Lst)' = <<Data[newNode]>> \o elements(Lst)
        /\ members = {} =>
             \A o \in Orders : Chain(HeadInserts(Lst, o)) = Reverse(o) ]_vars

\* A head-insert into a list that already had a node.
C4_Witness ==
  /\ last.op = "insert" /\ last.valid /\ last.after = None
  /\ head = last.node /\ Len(Chain(Lst)) >= 2

(***************************************************************************)
(* C5 - insert(newNode, after=N) with N a member splices newNode           *)
(* immediately after N: N.Next is newNode, newNode.Prev is N, newNode.Next *)
(* is N's old successor; if N was the tail, Tail becomes newNode,          *)
(* otherwise the old successor's Prev is newNode and Tail is unchanged;    *)
(* Head is unchanged; elements() yields the previous sequence with         *)
(* newNode's payload directly after N's.                                   *)
(***************************************************************************)
C5_InsertAfter ==
  [][ (last'.op = "insert" /\ last'.valid /\ last'.after # None) =>
        LET newNode == last'.node
            N == last'.after
            c == Chain(Lst)
            i == Pos(c, N)
        IN  /\ Next'[N] = newNode
            /\ Prev'[newNode] = N
            /\ Next'[newNode] = Next[N]
            /\ tail = N => tail' = newNode
            /\ tail # N => (Prev'[Next[N]] = newNode /\ tail' = tail)
            /\ head' = head
            /\ Chain(Lst)' = SeqInsertAfter(c, i, newNode)
            /\ elements(Lst)' = SeqInsertAfter(elements(Lst), i, Data[newNode]) ]_vars

\* A node was spliced between two members.
C5_Witness ==
  /\ last.op = "insert" /\ last.valid /\ last.after # None
  /\ Next[last.node] # None /\ Prev[last.node] = last.after
  /\ tail # last.node

(***************************************************************************)
(* C6 - removing a node that is not a member.  As claimed: the call fails  *)
(* with an InvalidArgument-class error and leaves Head, Tail and every     *)
(* member's Next/Prev unchanged, so the head/tail invariant survives.      *)
(***************************************************************************)
\* remove was called with a node that is not a member.
InvalidRemoveStep == last'.op = "remove" /\ last'.node \in Nodes \ members

C6_Original ==
  [][ InvalidRemoveStep =>
        /\ last'.raised # "none"
        /\ head' = head /\ tail' = tail
        /\ \A m \in members : Next'[m] = Next[m] /\ Prev'[m] = Prev[m]
        /\ C1_HeadTailInvariant => C1_HeadTailInvariant' ]_vars

\* C6 as amended: removing a node that is not a member raises nothing and
\* makes the assignments of a valid remove: Head is set to oldNode.Next when
\* oldNode.Prev is None, otherwise oldNode.Prev.Next is; Tail is set to
\* oldNode.Prev when oldNode.Next is None, otherwise oldNode.Next.Prev is;
\* nothing else changes, oldNode's own links included.  Removing a node that
\* was never inserted therefore sets Head and Tail to None.
C6_InvalidRemoveUnguarded ==
  [][ InvalidRemoveStep =>
        LET oldNode == last'.node IN
        /\ last'.raised = "none"
        /\ IF Prev[oldNode] = None
           THEN head' = Next[oldNode]
           ELSE head' = head /\ Next'[Prev[oldNode]] = Next[oldNode]
        /\ IF Next[oldNode] = None
           THEN tail' = Prev[oldNode]
           ELSE tail' = tail /\ Prev'[Next[oldNode]] = Prev[oldNode]
        /\ \A m \in Nodes : /\ m # Prev[oldNode] => Next'[m] = Next[m]
                            /\ m # Next[oldNode] => Prev'[m] = Prev[m]
        /\ (Next[oldNode] = None /\ Prev[oldNode] = None) =>
              (head' = None /\ tail' = None) ]_vars

\* A node outside the list was removed and the list lost its Head and Tail
\* although it still has members.
C6_Witness ==
  /\ last.op = "remove" /\ last.node # None /\ ~last.valid
  /\ last.raised = "none"
  /\ members # {} /\ head = None /\ tail = None /\ pre.Head # None

(***************************************************************************)
(* C7 - insert(newNode, after=N) with N not a member.  As claimed: the     *)
(* call fails loudly and Head, Tail and the Next/Prev of every member are  *)
(* unchanged.                                                              *)
(***************************************************************************)
\* insert was called with a node outside the list as newNode and another node
\* outside the list as after.
InvalidAfterStep ==
  /\ last'.op = "insert"
  /\ last'.node \in Nodes \ members
  /\ last'.after \in Nodes \ members
  /\ last'.after # last'.node

C7_Original ==
  [][ InvalidAfterStep =>
        /\ last'.raised # "none"
        /\ head' = head /\ tail' = tail
        /\ \A m \in members : Next'[m] = Next[m] /\ Prev'[m] = Prev[m] ]_vars

\* C7 as amended: the call raises nothing and links newNode behind N as it
\* would behind a member: Head is unchanged, N.Next is newNode, newNode.Next
\* is N's old Next; when that was None Tail becomes newNode and newNode.Prev
\* is N, otherwise Tail is unchanged and the Prev of N's old successor
\* becomes newNode (newNode.Prev is N unless N's stale Next was newNode
\* itself, which then is its own successor and predecessor); no other link
\* changes.
C7_InvalidAfterUnguarded ==
  [][ InvalidAfterStep =>
        LET newNode == last'.node
            N == last'.after
        IN  /\ last'.raised = "none"
            /\ head' = head
            /\ Next'[N] = newNode
            /\ Prev'[newNode] = IF Next[N] = newNode THEN newNode ELSE N
            /\ Next'[newNode] = Next[N]
            /\ IF Next[N] = None
               THEN tail' = newNode
               ELSE tail' = tail /\ Prev'[Next[N]] = newNode
            /\ \A m \in Nodes : /\ m \notin {N, newNode} => Next'[m] = Next[m]
                                /\ m \notin {newNode, Next[N]} => Prev'[m] = Prev[m] ]_vars

\* A node was inserted after a node outside the list, and the Tail of a
\* non-empty list now is a node that cannot be reached from Head.
C7_Witness ==
  /\ last.op = "insert" /\ last.raised = "none"
  /\ last.after \in Nodes \ members
  /\ pre.Tail # None /\ tail = last.node
  /\ last.node \notin Range(Chain(Lst))

(***************************************************************************)
(* C8 - insert(x, after) of a node outside the list immediately followed   *)
(* by remove(x) restores the list: Head, Tail and the Next/Prev of every   *)
(* node that was a member before the insert are as before the insert.      *)
(* (In the state before the remove, pre is the list before the insert.)    *)
(***************************************************************************)
C8_InsertRemoveRoundTrip ==
  [][ (last'.undoes /\ last.valid /\ last'.valid) =>
        /\ head' = pre.Head
        /\ tail' = pre.Tail
        /\ \A m \in members \ {last'.node} :
              Next'[m] = pre.Next[m] /\ Prev'[m] = pre.Prev[m] ]_vars

\* x was spliced between two members and removed again.
C8_Witness ==
  /\ last.op = "remove" /\ last.undoes /\ last.valid
  /\ Prev[last.node] \in members /\ Next[last.node] \in members

(***************************************************************************)
(* C9 - the removed node's own links.  As claimed: after remove(oldNode)   *)
(* returns, oldNode.Next and oldNode.Prev are both None.                   *)
(***************************************************************************)
C9_Original ==
  (last.op = "remove" /\ last.valid) =>
     (Next[last.node] = None /\ Prev[last.node] = None)

\* C9 as amended: remove(oldNode) leaves oldNode.Next and oldNode.Prev as
\* they were, so they still refer to oldNode's former neighbours.
C9_RemovedNodeKeepsLinks ==
  [][ (last'.op = "remove" /\ last'.valid) =>
        /\ Next'[last'.node] = Next[last'.node]
        /\ Prev'[last'.node] = Prev[last'.node] ]_vars

\* The removed node still refers to a member of the list.
C9_Witness ==
  /\ last.op = "remove" /\ last.valid
  /\ Next[last.node] \in members \/ Prev[last.node] \in members

(***************************************************************************)
(* C10 - whenever the list has exactly one member, remove of that member   *)
(* empties the list: Head and Tail are None and elements() yields nothing. *)
(***************************************************************************)
C10_RemoveSoleNode ==
  [][ (last'.op = "remove" /\ last'.valid /\ Cardinality(members) = 1) =>
        /\ head' = None
        /\ tail' = None
        /\ elements(Lst)' = <<>>
        /\ members' = {} ]_vars

\* The sole node was removed, after a history in which the list had held
\* several nodes (another node has a stale link).
C10_Witness ==
  /\ last.op = "remove" /\ last.valid
  /\ pre.Head = last.node /\ pre.Tail = last.node
  /\ head = None /\ tail = None
  /\ \E n \in Nodes : Next[n] # None \/ Prev[n] # None

(***************************************************************************)
(* C12 - a valid insert changes only Head/Tail and the links of at most    *)
(* three nodes (newNode, after and after's old successor; or newNode and   *)
(* the old head when after is absent): the Next and Prev of every other    *)
(* node and the Data of every node, newNode included, are unchanged.       *)
(***************************************************************************)
\* The nodes whose links lst.insert( newNode, after ) may assign.
InsertTouches(newNode, after) ==
  IF after # None THEN {newNode, after, Next[after]} \ {None}
  ELSE {newNode, head} \ {None}

C15_ReinsertRemovedNode ==
  [][ (last'.op = "insert" /\ last'.valid) =>
        LET newNode == last'.node
            after == last'.after
        IN  /\ Next'[newNode] = IF after = None THEN head ELSE Next[after]
            /\ Prev'[newNode] = after
            /\ C1_HeadTailInvariant'
            /\ C2_LinkageInvariant' ]_vars

\* A node that still had links from before its removal was inserted again, and
\* both links now differ from the stale ones.
C15_Witness ==
  /\ last.op = "insert" /\ last.valid
  /\ pre.Next[last.node] # None /\ pre.Prev[last.node] # None
  /\ Next[last.node] # pre.Next[last.node]
  /\ Prev[last.node] # pre.Prev[last.node]

(***************************************************************************)
(* C16 - remove(x) called a second time immediately after a valid          *)
(* remove(x) leaves the list exactly as it was after the first remove:     *)
(* Head, Tail and every member's Next/Prev are unchanged, because x keeps  *)
(* its old Next/Prev and the second call repeats the same assignments.     *)
(***************************************************************************)
C16_DoubleRemoveIdempotent ==
  [][ last'.repeats =>
        /\ last'.raised = "none"
        /\ Next[last'.node] = pre.Next[last'.node]
        /\ Prev[last'.node] = pre.Prev[last'.node]
        /\ head' = head
        /\ tail' = tail
        /\ \A m \in members : Next'[m] = Next[m] /\ Prev'[m] = Prev[m] ]_vars

\* x was removed twice in a row from between two nodes that are still in the
\* list.
C16_Witness ==
  /\ last.op = "remove" /\ last.repeats /\ ~last.valid
  /\ Prev[last.node] \in members /\ Next[last.node] \in members
  /\ Lst = pre

(***************************************************************************)
(* C11 - on a list that is not mutated during the iteration, elements()    *)
(* terminates after yielding exactly one payload per member, from Head to  *)
(* Tail in list order; on an empty list it yields nothing; it modifies     *)
(* neither Head, Tail nor any node; each new call starts again from the    *)
(* current Head, so two calls with no mutation in between yield the same   *)
(* sequence.                                                               *)
(***************************************************************************)
\* The generator has been resumed.
GenStep == gen.pc \in {"created", "yield"} /\ gen'.pc \in {"yield", "done"} /\ gen' # gen

\* What a generator on an untouched list has yielded so far.
C11_Progress ==
  (gen.pc # "none" /\ gen.clean) =>
     LET c == Chain(Lst)
         k == Len(gen.out)
     IN  /\ k <= Cardinality(members)
         /\ gen.out = SubSeq(elements(Lst), 1, k)
         /\ gen.pc = "created" => k = 0
         /\ gen.pc = "yield" => (k >= 1 /\ gen.n = c[k])
         /\ gen.pc = "done" =>
              /\ k = Cardinality(members)
              /\ gen.out = elements(Lst)
              /\ Range(gen.out) = {Data[m] : m \in members}
              /\ members = {} => gen.out = <<>>
              /\ k >= 1 => (gen.out[1] = Data[head] /\ gen.out[k] = Data[tail])
              /\ gen.before # NoRun => gen.out = gen.before

\* A resumed generator yields one more payload or ends, and ends exactly when
\* every member has been yielded; it assigns nothing to the list or the nodes.
C11_Resume ==
  (GenStep /\ gen.clean) =>
     /\ gen'.pc = "yield" => Len(gen'.out) = Len(gen.out) + 1
     /\ gen'.pc = "done" <=> Len(gen.out) = Cardinality(members)
     /\ gen'.pc = "done" => gen'.out = gen.out
     /\ gen.pc = "created" /\ head # None => gen'.n = head
     /\ Lst' = Lst /\ Data' = Data /\ members' = members

C11_ElementsIteration == []C11_Progress /\ [][C11_Resume]_vars

\* A second iteration in a row has ended on a list of several nodes, with the
\* payloads of the first.
C11_Witness ==
  /\ gen.pc = "done" /\ gen.clean
  /\ gen.before # NoRun /\ gen.out = gen.before
  /\ Len(gen.out) >= 2 /\ Len(gen.out) = Cardinality(members)

(***************************************************************************)
(* C14 - an iteration of elements() interleaved with valid remove calls    *)
(* only (no inserts) always terminates and yields no node's payload more   *)
(* than once, even when the node the generator is positioned on is itself  *)
(* removed; it may yield the payload of a node that was removed before the *)
(* generator reached it.                                                   *)
(***************************************************************************)
C14_NoPayloadTwice ==
  /\ \A i \in 1..Len(gen.out), j \in 1..Len(gen.out) : i # j => gen.out[i] # gen.out[j]
  /\ Len(gen.out) <= NumNodes

C14_IterationUnderRemoves ==
  /\ []C14_NoPayloadTwice
  /\ (gen.pc \in {"created", "yield"}) ~> (gen.pc = "done")

\* An iteration has ended after yielding a node that had been removed before
\* the generator came to it; the list was removed from during the iteration.
C14_Witness ==
  /\ gen.pc = "done" /\ gen.stale /\ ~gen.clean
  /\ Len(gen.out) >= 2
  /\ \E i \in 1..Len(gen.out) : \E m \in Nodes \ members : gen.out[i] = Data[m]

(***************************************************************************)
(* C17 - insert does not guard against newNode being a member.  As         *)
(* claimed: inserting the current Head again with after absent sets        *)
(* Head.Next to Head itself; the chain is then cyclic, Tail is no longer   *)
(* reachable from Head, and an elements() iteration never terminates.      *)
(***************************************************************************)
\* lst.insert( lst.Head ) was called on a list reached by valid calls.
HeadReinsertStep ==
  /\ misuse = 0 /\ head # None
  /\ last'.op = "insert" /\ last'.node = head /\ last'.after = None

\* The walk along Next from Head never ends.
Cyclic(L) == Len(Chain(L)) > NumNodes

C17_Original ==
  [][ HeadReinsertStep =>
        /\ Next'[head'] = head'
        /\ Cyclic(Lst)'
        /\ tail' \notin Range(Chain(Lst)') ]_vars

\* C17 as amended: inserting the current Head again with after absent raises
\* nothing and sets Head.Next (and Head.Prev) to Head itself; the chain is
\* then cyclic, Tail is no longer reachable from Head when the list had two
\* or more members (with a sole member Tail is that node itself), and a
\* generator of elements() on that list yields Head's payload each time it
\* is resumed and never ends.  As long as every inserted newNode is not a
\* member, the chain is acyclic.
C17_HeadLoop ==
  (head # None /\ Next[head] = head /\ gen.pc # "none" /\ gen.clean) =>
     /\ gen.pc # "done"
     /\ \A i \in 1..Len(gen.out) : gen.out[i] = Data[head]

C17_ReinsertStep ==
  /\ HeadReinsertStep =>
        /\ last'.raised = "none"
        /\ head' = head /\ tail' = tail
        /\ Next'[head] = head /\ Prev'[head] = head
        /\ Cyclic(Lst)'
        /\ Cardinality(members) >= 2 => tail' \notin Range(Chain(Lst)')
        /\ Cardinality(members) = 1 => tail' = head'
  /\ (GenStep /\ head # None /\ Next[head] = head /\ gen.clean) =>
        /\ gen'.pc = "yield" /\ gen'.n = head
        /\ gen'.out = Append(gen.out, Data[head])

C17_ReinsertHeadCycles ==
  /\ [](misuse = 0 => ~Cyclic(Lst))
  /\ []C17_HeadLoop
  /\ [][C17_ReinsertStep]_vars

\* After the Head of a list of several nodes was inserted again, a generator
\* has yielded Head's payload more often than there are nodes.
C17_Witness ==
  /\ misuse = 1 /\ Cardinality(members) >= 2
  /\ Next[head] = head /\ tail # head
  /\ gen.pc = "yield" /\ gen.n = head
  /\ Len(gen.out) > NumNodes

(***************************************************************************)
(* C13 - the NBTerror registry is a fixed table whose codes are exactly    *)
(* the contiguous range 1000..1005 (minimum 1000, less than the maximum);  *)
(* looking up the minimum code gives "Warning", looking up a registered    *)
(* code gives its own label (1002 gives "NBT Semantic Error"), and looking *)
(* up any code outside the range, an absent code included, fails with the  *)
(* undefined-code error instead of returning a label.                      *)
(***************************************************************************)
C13_ErrorRegistry ==
  /\ err.op = "errRange" =>
        /\ err.value = <<1000, 1005>>
        /\ err.value[1] < err.value[2]
        /\ DOMAIN error_dict = err.value[1]..err.value[2]
  /\ err.op = "errStr" =>
        /\ err.code \in 1000..1005 =>
              (err.raised = "none" /\ err.value = error_dict[err.code])
        /\ err.code = 1000 => err.value = "Warning"
        /\ err.code = 1002 => err.value = "NBT Semantic Error"
        /\ err.code \notin 1000..1005 =>
              (err.raised = "ValueError" /\ err.value = None)

\* The code just above the table was looked up and refused.
C13_Witness ==
  /\ err.op = "errStr" /\ err.code = 1006
  /\ err.raised = "ValueError"

TypeOK ==
  /\ head \in Nodes \cup {None}
  /\ tail \in Nodes \cup {None}
  /\ Next \in [Nodes -> Nodes \cup {None}]
  /\ Prev \in [Nodes -> Nodes \cup {None}]
  /\ members \subseteq Nodes
  /\ misuse \in 0..MaxMisuse
  /\ gen.pc \in {"none", "created", "yield", "done"}
  /\ gen.n \in Nodes \cup {None}
  /\ Len(gen.out) <= MaxYield
====
